---- MODULE Spec2Model ----
(***************************************************************************)
(* A model of idevice-app-launcher: the gdb-remote handshake driven by     *)
(* IosAppRunnerHelper.startAppViaDebugger (src/src/runApp.ts), the package *)
(* lookup of startApp in front of it, and the error mapping of the         *)
(* convenience wrappers (src/src/simpleWrapper.ts).                        *)
(*                                                                         *)
(* Strings are sequences of character codes, so that checksums, hex        *)
(* encoding and the marker dispatch are computed as the code computes      *)
(* them.  Promise reactions (the .then callbacks) are queued jobs that run *)
(* before the next socket or timer callback, as on the event loop.         *)
(***************************************************************************)
EXTENDS Integers, Sequences, FiniteSets, TLC

\* ------------------------------------------------------------------ bounds

\* Number of socket events (data deliveries, end, error) in one run.
MaxEvents == 5

\* Length of the strings makeGdbCommand and encodePath are applied to.
MaxLen == 3

\* Number of startDebugProxy calls in one run.
MaxCalls == 2

\* ----------------------------------------------------------------- strings

\* Character code of the one-character strings the model writes or reads.
Ord(c) ==
    CASE c = "\n" -> 10
      [] c = " " -> 32
      [] c = "#" -> 35
      [] c = "$" -> 36
      [] c = "+" -> 43
      [] c = "," -> 44
      [] c = "/" -> 47
      [] c = "0" -> 48
      [] c = "1" -> 49
      [] c = "2" -> 50
      [] c = "3" -> 51
      [] c = "4" -> 52
      [] c = "5" -> 53
      [] c = "6" -> 54
      [] c = "7" -> 55
      [] c = "8" -> 56
      [] c = "9" -> 57
      [] c = ":" -> 58
      [] c = "?" -> 63
      [] c = "A" -> 65
      [] c = "B" -> 66
      [] c = "C" -> 67
      [] c = "D" -> 68
      [] c = "E" -> 69
      [] c = "F" -> 70
      [] c = "H" -> 72
      [] c = "K" -> 75
      [] c = "N" -> 78
      [] c = "O" -> 79
      [] c = "S" -> 83
      [] c = "T" -> 84
      [] c = "W" -> 87
      [] c = "X" -> 88
      [] c = "a" -> 97
      [] c = "c" -> 99
      [] c = "d" -> 100
      [] c = "e" -> 101
      [] c = "f" -> 102
      [] c = "g" -> 103
      [] c = "i" -> 105
      [] c = "k" -> 107
      [] c = "l" -> 108
      [] c = "n" -> 110
      [] c = "o" -> 111
      [] c = "p" -> 112
      [] c = "r" -> 114
      [] c = "s" -> 115
      [] c = "t" -> 116
      [] c = "u" -> 117
      [] c = "v" -> 118

\* A string literal: the codes of a tuple of one-character strings.
Str(t) == [i \in 1..Len(t) |-> Ord(t[i])]

\* Concatenation of a sequence of strings.
RECURSIVE Concat(_)
Concat(ss) == IF ss = <<>> THEN <<>> ELSE Head(ss) \o Concat(Tail(ss))

\* JavaScript s[i] (0-based); -1 stands for undefined.
CharAt(s, i) == IF i >= 0 /\ i < Len(s) THEN s[i + 1] ELSE -1

\* JavaScript s.substring(a, b) for 0 <= a <= b.
Substring(s, a, b) ==
    LET hi == IF b < Len(s) THEN b ELSE Len(s)
        lo == IF a < hi THEN a ELSE hi
    IN  SubSeq(s, lo + 1, hi)

HexDigits == Str(<<"0","1","2","3","4","5","6","7","8","9","A","B","C","D","E","F">>)

\* n.toString(16).toUpperCase() for n >= 0: no padding.
RECURSIVE ToHexUpper(_)
ToHexUpper(n) ==
    IF n < 16 THEN <<HexDigits[n + 1]>>
    ELSE ToHexUpper(n \div 16) \o <<HexDigits[(n % 16) + 1]>>

\* String(n) for n >= 0, as "A" + encodedPath.length concatenates it.
RECURSIVE ToDecimal(_)
ToDecimal(n) ==
    IF n < 10 THEN <<HexDigits[n + 1]>>
    ELSE ToDecimal(n \div 10) \o <<HexDigits[(n % 10) + 1]>>

\* Value of a hexadecimal digit character, -1 when it is none
\* (parseInt accepts both cases; only upper case occurs in the inputs).
HexValue(ch) ==
    IF \E d \in 1..16 : HexDigits[d] = ch
    THEN (CHOOSE d \in 1..16 : HexDigits[d] = ch) - 1
    ELSE -1

\* A JavaScript number or null: kind is "null", "NaN" or "number".
Null == [kind |-> "null", value |-> 0]

Number(n) == [kind |-> "number", value |-> n]

\* parseInt(s, 16) of an at most two character string: the longest prefix
\* of hex digits; NaN when there is none.
ParseInt16(s) ==
    IF Len(s) = 0 \/ HexValue(s[1]) = -1 THEN [kind |-> "NaN", value |-> 0]
    ELSE IF Len(s) = 1 \/ HexValue(s[2]) = -1 THEN Number(HexValue(s[1]))
    ELSE Number(16 * HexValue(s[1]) + HexValue(s[2]))

\* A faulty encoding: letters are left as they are.
EncodeCharKeepingLetters(ch) ==
    IF ch \in (65..90) \cup (97..122) THEN <<ch>> ELSE ToHexUpper(ch)

\* The callback of packagePath.replace(/./g, ...): "." matches every
\* character but a line terminator, which replace() leaves as it is.
EncodeChar(ch) == IF ch \in {10, 13} THEN <<ch>> ELSE ToHexUpper(ch)

encodePath(packagePath) ==
    Concat([i \in 1..Len(packagePath) |-> EncodeChar(packagePath[i])])

RECURSIVE StringSum(_)
StringSum(s) == IF s = <<>> THEN 0 ELSE Head(s) + StringSum(Tail(s))

\* A faulty makeGdbCommand: the checksum is not padded to two digits.
makeGdbCommandUnpadded(command) ==
    Str(<<"$">>) \o command \o Str(<<"#">>) \o ToHexUpper(StringSum(command) % 256)

makeGdbCommand(command) ==
    LET stringSum == StringSum(command) % 256
        hex == ToHexUpper(stringSum)
        checksum == IF Len(hex) < 2 THEN Str(<<"0">>) \o hex ELSE hex
    IN  Str(<<"$">>) \o command \o Str(<<"#">>) \o checksum

\* The three commands of the handshake.
CmdA(packagePath) ==
    LET encodedPath == encodePath(packagePath)
    IN  makeGdbCommand(Str(<<"A">>) \o ToDecimal(Len(encodedPath))
                         \o Str(<<",", "0", ",">>) \o encodedPath)

CmdHc0 == makeGdbCommand(Str(<<"H", "c", "0">>))

CmdC == makeGdbCommand(Str(<<"c">>))

Ack == Str(<<"+">>)

\* ------------------------------------------------------------------ inputs

\* On-device paths handed to startAppViaDebugger: a plain one and one with a
\* line terminator in it.
Paths == { Str(<<"/", "a">>), Str(<<"/", "\n">>) }

\* What one "data" callback can deliver.
Deliveries ==
    { Str(<<"+">>),
      Str(<<"+", "$", "O", "K", "#", "9", "A">>),
      Str(<<"$", "O", "K", "#", "9", "A">>),
      Str(<<"$", "O", "#", "4", "F">>),
      Str(<<"$", "E", "2", "3", "#", "A", "A">>),
      Str(<<"$", "T", "9", "1", "#", "0", "0">>),
      Str(<<"$", "W", "0", "0", "#", "B", "7">>),
      Str(<<"$", "X", "0", "B", "#", "C", "A">>),
      Str(<<"$", "S", "#", "5", "3">>),
      Str(<<"$", "O", "K">>) }

\* The list ideviceinstaller reports: entries of CFBundleIdentifier and Path.
PackageId == "com.example.app"

InstalledLists ==
    { <<>>,
      << [CFBundleIdentifier |-> "com.other.app", Path |-> Str(<<"/", "\n">>)],
         [CFBundleIdentifier |-> PackageId, Path |-> Str(<<"/", "a">>)] >> }

\* ------------------------------------------------------------------ values

\* What a promise is settled with: the socket, a string, or an Error object
\* (text is its message).
SocketValue == [type |-> "socket", text |-> "socket"]

StringValue(s) == [type |-> "string", text |-> s]

ErrorValue(message) == [type |-> "Error", text |-> message]

\* A Q deferred: pending, or settled once with a value or a reason.
PendingPromise == [st |-> "pending", type |-> "none", text |-> "none"]

\* deferred.resolve(value): settles a pending deferred, otherwise nothing.
Resolve(df, value) ==
    IF df.st = "pending"
    THEN [st |-> "resolved", type |-> value.type, text |-> value.text]
    ELSE df

\* A faulty reject: it overwrites a settled deferred.
RejectOverwriting(df, reason) ==
    [st |-> "rejected", type |-> reason.type, text |-> reason.text]

\* deferred.reject(reason): settles a pending deferred, otherwise nothing.
Reject(df, reason) ==
    IF df.st = "pending"
    THEN [st |-> "rejected", type |-> reason.type, text |-> reason.text]
    ELSE df

\* -------------------------------------------------------------------- state

VARIABLES
    entry,        \* the entry point called: "startApp" or "startAppViaDebugger"
    packagePath,  \* the path startAppViaDebugger was called with (<<>> before)
    sock,         \* "none", "connecting", "open" or "destroyed"
    peerEnded,    \* the peer's end has been delivered ("end" event)
    ended,        \* socket.end() has been called
    initState,    \* the step counter of startAppViaDebugger
    endStatus,    \* exit status parsed from a W frame (Null before)
    endSignal,    \* signal parsed from an X frame (Null before)
    deferred,     \* deferred[k]: the expectation of step k, k in 1..3
    timer,        \* timer[k]: "off", "armed" or "fired"
    chain,        \* what the returned promise chain waits for
    result,       \* the promise returned by IosAppRunnerHelper.startApp*
    wrapped,      \* the promise returned by the simpleWrapper function
    written,      \* the arguments of the socket.write calls, in order
    calls,        \* the socket and deferred calls of the last callback, in order
    nev,          \* number of socket events delivered
    last,         \* the callback that ran last
    good          \* matching replies of an undisturbed run so far, -1 once disturbed

\* The state of the runs that apply makeGdbCommand or encodePath to a string,
\* and of the runs of startDebugProxy.
VARIABLES
    fn,             \* the function applied: "none", "makeGdbCommand", "encodePath"
    arg,            \* the string it is applied to
    ret,            \* what it returned (<<>> before)
    tacoRemoteLib,  \* global.tacoRemoteLib of sharedState.ts
    procs,          \* the proxy processes spawned so far; a pid is an index
    call            \* call[c]: the c-th startDebugProxy call

\* The state of a run of mountDeveloperImage.
VARIABLES
    diskImage,      \* getDiskImage(): "none", "pending", "resolved" or its error
    imagemounter,   \* the ideviceimagemounter child: "none", "running", "closed"
    stdout,         \* the output of the child collected so far
    ndata,          \* number of stdout "data" events delivered
    mountErrored,   \* the child's "error" event has been delivered
    code,           \* the exit code the "close" event carried (Null before)
    mountDeferred   \* the deferred of the mount

handshakeVars ==
    << entry, packagePath, sock, peerEnded, ended, initState, endStatus,
       endSignal, deferred, timer, chain, result, wrapped, written,
       calls, nev, last, good >>

fnVars == << fn, arg, ret >>

proxyVars == << tacoRemoteLib, procs, call >>

mountVars ==
    << diskImage, imagemounter, stdout, ndata, mountErrored, code, mountDeferred >>

auxVars == << fnVars, proxyVars, mountVars >>

vars == << handshakeVars, auxVars >>

\* No function is being applied.
FnIdle == fn = "none" /\ arg = <<>> /\ ret = <<>>

\* No startDebugProxy call is made: global.tacoRemoteLib is undefined.
ProxyIdle ==
    /\ tacoRemoteLib = [defined |-> FALSE, nativeDebuggerProxyInstance |-> 0]
    /\ procs = <<>>
    /\ call = <<>>

\* No mountDeveloperImage call is made.
MountIdle ==
    /\ diskImage = "none"
    /\ imagemounter = "none"
    /\ stdout = <<>>
    /\ ndata = 0
    /\ mountErrored = FALSE
    /\ code = Null
    /\ mountDeferred = PendingPromise

Steps == 1..3

\* The command frames among the writes (everything but the "+" acks).
Commands(w) == SelectSeq(w, LAMBDA f : f # Ack)

\* A reaction of a settled promise is queued: it runs before any other callback.
JobPending ==
    \/ chain = "step1" /\ deferred[1].st # "pending"
    \/ chain = "step2" /\ deferred[2].st # "pending"
    \/ chain = "step3" /\ deferred[3].st # "pending"
    \/ result.st # "pending" /\ wrapped.st = "pending"

\* ----------------------------------------------------------- construction

\* startAppViaDebugger up to its return: the socket is created and is
\* connecting, initState is 0 and the three deferreds are pending.
\* startApp: the package list is being fetched, no socket exists yet.
Init ==
    /\ entry \in {"startApp", "startAppViaDebugger"}
    /\ IF entry = "startAppViaDebugger"
       THEN packagePath \in Paths /\ sock = "connecting" /\ chain = "step1"
       ELSE packagePath = <<>> /\ sock = "none" /\ chain = "lookup"
    /\ peerEnded = FALSE
    /\ ended = FALSE
    /\ initState = 0
    /\ endStatus = Null
    /\ endSignal = Null
    /\ deferred = [k \in Steps |-> PendingPromise]
    /\ timer = [k \in Steps |-> "off"]
    /\ result = PendingPromise
    /\ wrapped = PendingPromise
    /\ written = <<>>
    /\ calls = <<>>
    /\ nev = 0
    /\ last = "none"
    /\ good = 0
    /\ FnIdle
    /\ ProxyIdle
    /\ MountIdle

\* ------------------------------------------------------ the socket callbacks

\* The variables the callbacks of startAppViaDebugger close over, and the
\* calls the running callback has made so far.
Closure ==
    [ deferred |-> deferred, initState |-> initState, endStatus |-> endStatus,
      endSignal |-> endSignal, ended |-> ended, calls |-> <<>> ]

UnableToLaunchApp == StringValue("UnableToLaunchApp")

DeviceLaunchTimeout == StringValue("DeviceLaunchTimeout")

\* while (data[0] === "+") { data = data.substring(1); }
RECURSIVE StripPlus(_)
StripPlus(data) ==
    IF CharAt(data, 0) = Ord("+") THEN StripPlus(Substring(data, 1, Len(data)))
    ELSE data

\* data[1] === "W": the app exited; remember the status and end the socket.
OnW(data, s) ==
    [s EXCEPT !.endStatus = ParseInt16(Substring(data, 2, 4)), !.ended = TRUE,
              !.calls = Append(@, "end")]

\* data[1] === "X": the app was killed by a signal; end the socket.
OnX(data, s) ==
    [s EXCEPT !.endSignal = ParseInt16(Substring(data, 2, 4)), !.ended = TRUE,
              !.calls = Append(@, "end")]

\* A faulty T branch: the socket is left open.
OnTKeepingOpen(s) == s

\* data[1] === "T": the debugger stopped the process; end the socket.
OnT(s) == [s EXCEPT !.ended = TRUE, !.calls = Append(@, "end")]

\* A faulty OK branch: OK is taken as the reply of whatever step is awaited.
OnOKAnyStep(s) ==
    IF s.initState \in Steps
    THEN [s EXCEPT !.deferred[s.initState] = Resolve(@, SocketValue),
                   !.calls = Append(@, "resolve")]
    ELSE s

\* "OK": the last command was received.
OnOK(s) ==
    IF s.initState = 1
    THEN [s EXCEPT !.deferred[1] = Resolve(@, SocketValue),
                   !.calls = Append(@, "resolve1")]
    ELSE IF s.initState = 2
    THEN [s EXCEPT !.deferred[2] = Resolve(@, SocketValue),
                   !.calls = Append(@, "resolve2")]
    ELSE s

\* A faulty O branch: it expects the output one step early.
OnOEarly(s) ==
    IF s.initState = 2
    THEN [s EXCEPT !.deferred[3] = Resolve(@, SocketValue),
                   !.initState = @ + 1,
                   !.calls = Append(@, "resolve3")]
    ELSE s

\* A faulty O branch: every output frame advances the step counter.
OnOAlwaysAdvancing(s) ==
    IF s.initState = 3
    THEN [s EXCEPT !.deferred[3] = Resolve(@, SocketValue),
                   !.initState = @ + 1,
                   !.calls = Append(@, "resolve3")]
    ELSE [s EXCEPT !.initState = @ + 1]

\* data[1] === "O": the app wrote to stdout.
OnO(s) ==
    IF s.initState = 3
    THEN [s EXCEPT !.deferred[3] = Resolve(@, SocketValue),
                   !.initState = @ + 1,
                   !.calls = Append(@, "resolve3")]
    ELSE s

\* The name of the call deferred<k>.reject(...).
RejectCall(k) == IF k = 1 THEN "reject1" ELSE IF k = 2 THEN "reject2" ELSE "reject3"

\* Rejecting the three deferreds, as the E branch and the end and error
\* handlers do.
RejectAll(s, reason) ==
    [s EXCEPT !.deferred = [k \in Steps |-> Reject(s.deferred[k], reason)],
              !.calls = @ \o <<"reject1", "reject2", "reject3">>]

\* A faulty E branch: it rejects the first deferred alone.
OnEFirstOnly(s) ==
    [s EXCEPT !.deferred[1] = Reject(@, UnableToLaunchApp),
              !.calls = Append(@, "reject1")]

\* A faulty E branch: it also ends the socket.
OnEEnding(s) ==
    [RejectAll(s, UnableToLaunchApp) EXCEPT !.ended = TRUE, !.calls = Append(@, "end")]

\* data[1] === "E": the debug server reports an error.
OnE(s) == RejectAll(s, UnableToLaunchApp)

\* A faulty dispatch: a payload of no known marker is taken for an error reply.
DispatchUnknownAsError(data, s) ==
    IF CharAt(data, 1) = Ord("W") THEN OnW(data, s)
    ELSE IF CharAt(data, 1) = Ord("X") THEN OnX(data, s)
    ELSE IF CharAt(data, 1) = Ord("T") THEN OnT(s)
    ELSE IF Substring(data, 1, 3) = Str(<<"O", "K">>) THEN OnOK(s)
    ELSE IF CharAt(data, 1) = Ord("O") THEN OnO(s)
    ELSE OnE(s)

\* The marker dispatch of the data callback, in the order of its branches.
Dispatch(data, s) ==
    IF CharAt(data, 1) = Ord("W") THEN OnW(data, s)
    ELSE IF CharAt(data, 1) = Ord("X") THEN OnX(data, s)
    ELSE IF CharAt(data, 1) = Ord("T") THEN OnT(s)
    ELSE IF Substring(data, 1, 3) = Str(<<"O", "K">>) THEN OnOK(s)
    ELSE IF CharAt(data, 1) = Ord("O") THEN OnO(s)
    ELSE IF CharAt(data, 1) = Ord("E") THEN OnE(s)
    ELSE s

\* socket.on("end")
OnEnd(s) == RejectAll(s, UnableToLaunchApp)

\* A faulty error handler: it reports the launch-failed string.
OnErrorAsLaunchFailure(s, err) == RejectAll(s, UnableToLaunchApp)

\* socket.on("error")
OnError(s, err) == RejectAll(s, err)

\* A faulty timer callback: it rejects every deferred.
OnTimeoutAll(s, k) == RejectAll(s, DeviceLaunchTimeout)

\* A faulty timer callback: it rejects nothing.
OnTimeoutNothing(s, k) == s

\* A faulty timer callback: it also ends the socket.
OnTimeoutEnding(s, k) ==
    [s EXCEPT !.deferred[k] = Reject(@, DeviceLaunchTimeout),
              !.ended = TRUE,
              !.calls = @ \o <<RejectCall(k), "end">>]

\* The setTimeout callback of step k.
OnTimeout(s, k) ==
    [s EXCEPT !.deferred[k] = Reject(@, DeviceLaunchTimeout),
              !.calls = Append(@, RejectCall(k))]

\* Writing a closure record back to the variables.
SetClosure(s) ==
    /\ deferred' = s.deferred
    /\ initState' = s.initState
    /\ endStatus' = s.endStatus
    /\ endSignal' = s.endSignal
    /\ ended' = s.ended
    /\ calls' = s.calls

\* ------------------------------------------------------------- observation

\* The kind of a delivery, read off the bytes alone: "none" when it is no
\* frame, else the marker its payload starts with.
Marker(raw) ==
    LET data == StripPlus(raw)
        has(t) == Substring(data, 1, 1 + Len(t)) = Str(t)
    IN  IF CharAt(data, 0) # Ord("$") THEN "none"
        ELSE IF has(<<"O", "K">>) THEN "OK"
        ELSE IF has(<<"W">>) THEN "W"
        ELSE IF has(<<"X">>) THEN "X"
        ELSE IF has(<<"T">>) THEN "T"
        ELSE IF has(<<"O">>) THEN "O"
        ELSE IF has(<<"E">>) THEN "E"
        ELSE "other"

\* The count of matching replies of a run nothing has disturbed: the peer
\* answered command good + 1 with m.
GoodAfterFrame(m) ==
    LET n == Len(Commands(written))
    IN  IF good \in {0, 1} /\ n = good + 1 /\ m = "OK" THEN good + 1
        ELSE IF good = 2 /\ n = 3 /\ m = "O" THEN 3
        ELSE IF good \in 0..2 /\ m = "E" THEN -1
        ELSE good

\* An end or error event disturbs a handshake that is not complete.
GoodAfterDrop == IF good \in 0..2 THEN -1 ELSE good

\* Timer k disturbs the run when it fires before reply k.
GoodAfterTimer(k) == IF good \in 0..(k - 1) THEN -1 ELSE good

\* ------------------------------------------------------------------ actions

\* Transport errors the socket can report.
TransportErrors == {"ECONNRESET"}

\* The errors child_process.exec can fail with ("none": it succeeded).
ExecErrors == {"none", "ENOENT", "EACCES"}

\* The index of the first entry of list whose CFBundleIdentifier is
\* packageId; 0 when the loop finds no such entry.
FindPackage(list, packageId) ==
    LET hits == {i \in 1..Len(list) : list[i].CFBundleIdentifier = packageId}
    IN  IF hits = {} THEN 0 ELSE CHOOSE i \in hits : \A j \in hits : i <= j

\* IosAppRunnerHelper.startApp: what the lookup of the package ends with, a
\* path to start or the Error it throws.
LookupOutcome(execErr, fileOk, list) ==
    IF execErr = "ENOENT" THEN ErrorValue("IDeviceInstallerNotFound")
    ELSE IF execErr # "none" THEN ErrorValue(execErr)
    ELSE IF ~fileOk THEN ErrorValue("WrongInstalledAppsFile")
    ELSE IF FindPackage(list, PackageId) = 0 THEN ErrorValue("PackageNotInstalled")
    ELSE [type |-> "path", text |-> list[FindPackage(list, PackageId)].Path]

\* startApp: the package list arrives; the package's path is handed to
\* startAppViaDebugger, or the returned promise is rejected.
Lookup ==
    /\ chain = "lookup"
    /\ \E execErr \in ExecErrors, fileOk \in BOOLEAN, list \in InstalledLists :
         LET out == LookupOutcome(execErr, fileOk, list)
         IN  IF out.type = "path"
             THEN /\ packagePath' = out.text
                  /\ sock' = "connecting"
                  /\ chain' = "step1"
                  /\ result' = result
             ELSE /\ result' = Reject(result, out)
                  /\ chain' = "settled"
                  /\ UNCHANGED << packagePath, sock >>
    /\ last' = "lookup"
    /\ calls' = <<>>
    /\ UNCHANGED << auxVars, entry, peerEnded, ended, initState, endStatus, endSignal,
                    deferred, timer, wrapped, written, nev, good >>

\* The connect callback: write the A command and start the timer of step 1.
Connect ==
    /\ sock = "connecting"
    /\ ~JobPending
    /\ sock' = "open"
    /\ initState' = initState + 1
    /\ written' = Append(written, CmdA(packagePath))
    /\ calls' = <<"write", "setTimeout">>
    /\ timer' = [timer EXCEPT ![1] = "armed"]
    /\ last' = "connect"
    /\ UNCHANGED << auxVars, entry, packagePath, peerEnded, ended, endStatus, endSignal,
                    deferred, chain, result, wrapped, nev, good >>

\* A faulty data callback: the frame is acknowledged after it was handled.
OnDataAckingLast(raw) ==
    LET data == StripPlus(raw)
        handled == Dispatch(data, Closure)
    IN  /\ sock = "open"
        /\ ~peerEnded
        /\ ~JobPending
        /\ nev < MaxEvents
        /\ IF CharAt(data, 0) = Ord("$")
           THEN /\ written' = Append(written, Ack)
                /\ SetClosure([handled EXCEPT !.calls = Append(@, "write")])
           ELSE /\ calls' = <<>>
                /\ UNCHANGED << written, deferred, initState, endStatus,
                                endSignal, ended >>
        /\ nev' = nev + 1
        /\ last' = Marker(raw)
        /\ good' = GoodAfterFrame(Marker(raw))
        /\ UNCHANGED << auxVars, entry, packagePath, sock, peerEnded, timer,
                        chain, result, wrapped >>

\* The "data" callback on one delivery.
OnData(raw) ==
    LET data == StripPlus(raw)
    IN  /\ sock = "open"
        /\ ~peerEnded
        /\ ~JobPending
        /\ nev < MaxEvents
        /\ IF CharAt(data, 0) = Ord("$")
           THEN /\ written' = Append(written, Ack)
                /\ SetClosure(Dispatch(data, [Closure EXCEPT !.calls = <<"write">>]))
           ELSE /\ calls' = <<>>
                /\ UNCHANGED << written, deferred, initState, endStatus,
                                endSignal, ended >>
        /\ nev' = nev + 1
        /\ last' = Marker(raw)
        /\ good' = GoodAfterFrame(Marker(raw))
        /\ UNCHANGED << auxVars, entry, packagePath, sock, peerEnded, timer, chain,
                        result, wrapped >>

Data == \E raw \in Deliveries : OnData(raw)

\* The "end" callback: the peer closed its side.
End ==
    /\ sock = "open"
    /\ ~peerEnded
    /\ ~JobPending
    /\ nev < MaxEvents
    /\ peerEnded' = TRUE
    /\ SetClosure(OnEnd(Closure))
    /\ nev' = nev + 1
    /\ last' = "end"
    /\ good' = GoodAfterDrop
    /\ UNCHANGED << auxVars, entry, packagePath, sock, timer, chain, result, wrapped,
                    written >>

\* The "error" callback: the connection failed or broke.
Error ==
    /\ sock \in {"connecting", "open"}
    /\ ~JobPending
    /\ nev < MaxEvents
    /\ \E e \in TransportErrors : SetClosure(OnError(Closure, ErrorValue(e)))
    /\ sock' = "destroyed"
    /\ nev' = nev + 1
    /\ last' = "error"
    /\ good' = GoodAfterDrop
    /\ UNCHANGED << auxVars, entry, packagePath, peerEnded, timer, chain, result,
                    wrapped, written >>

\* The timer of step k fires (timers are never cleared).
TimerFire(k) ==
    /\ timer[k] = "armed"
    /\ ~JobPending
    /\ timer' = [timer EXCEPT ![k] = "fired"]
    /\ SetClosure(OnTimeout(Closure, k))
    /\ last' = "timer"
    /\ good' = GoodAfterTimer(k)
    /\ UNCHANGED << auxVars, entry, packagePath, sock, peerEnded, chain, result,
                    wrapped, written, nev >>

Timer == \E k \in Steps : TimerFire(k)

\* A faulty first reaction: it also runs when deferred1 was rejected.
Then1OnAnyOutcome ==
    /\ chain = "step1"
    /\ deferred[1].st # "pending"
    /\ initState' = initState + 1
    /\ written' = Append(written, CmdHc0)
    /\ calls' = <<"write", "setTimeout">>
    /\ timer' = [timer EXCEPT ![2] = "armed"]
    /\ chain' = "step2"
    /\ last' = "then1"
    /\ UNCHANGED << auxVars, entry, packagePath, sock, peerEnded, ended, endStatus,
                    endSignal, deferred, result, wrapped, nev, good >>

\* deferred1.promise.then(...): write Hc0 and start the timer of step 2.
Then1 ==
    /\ chain = "step1"
    /\ deferred[1].st = "resolved"
    /\ initState' = initState + 1
    /\ written' = Append(written, CmdHc0)
    /\ calls' = <<"write", "setTimeout">>
    /\ timer' = [timer EXCEPT ![2] = "armed"]
    /\ chain' = "step2"
    /\ last' = "then1"
    /\ UNCHANGED << auxVars, entry, packagePath, sock, peerEnded, ended, endStatus,
                    endSignal, deferred, result, wrapped, nev, good >>

\* The second .then(...): write c and start the timer of step 3.
Then2 ==
    /\ chain = "step2"
    /\ deferred[2].st = "resolved"
    /\ initState' = initState + 1
    /\ written' = Append(written, CmdC)
    /\ calls' = <<"write", "setTimeout">>
    /\ timer' = [timer EXCEPT ![3] = "armed"]
    /\ chain' = "step3"
    /\ last' = "then2"
    /\ UNCHANGED << auxVars, entry, packagePath, sock, peerEnded, ended, endStatus,
                    endSignal, deferred, result, wrapped, nev, good >>

\* What the returned promise takes from the deferred the chain waits for:
\* a rejection of any step, or the value of step 3.
ChainOutcome(c, ds) ==
    IF c = "step1" /\ ds[1].st = "rejected" THEN ds[1]
    ELSE IF c = "step2" /\ ds[2].st = "rejected" THEN ds[2]
    ELSE IF c = "step3" /\ ds[3].st # "pending" THEN ds[3]
    ELSE PendingPromise

\* The returned promise settles.
Settle ==
    /\ ChainOutcome(chain, deferred).st # "pending"
    /\ result' = ChainOutcome(chain, deferred)
    /\ chain' = "settled"
    /\ last' = "settle"
    /\ calls' = <<>>
    /\ UNCHANGED << auxVars, entry, packagePath, sock, peerEnded, ended, initState,
                    endStatus, endSignal, deferred, timer, wrapped, written,
                    nev, good >>

\* simpleWrapper.ts: the English message of each error id.
errorMap ==
    [ IDeviceInstallerNotFound |->
        "Unable to find ideviceinstaller. Please 'brew install ideviceinstaller' and try again.",
      WrongInstalledAppsFile |-> "Unable to list installed applications on device.",
      PackageNotInstalled |-> "Application not installed on device.",
      UnableToLaunchApp |->
        "Unable to launch application on device due to a communication error.",
      DeviceLaunchTimeout |-> "Timed out launching application. Is the device locked?",
      NoDeviceAttached |-> "Unable to find device. Is the device plugged in?",
      ErrorMountingDiskImage |-> "Unable to mount developer disk image",
      FailedGetDeviceInfo |-> "Unable to get device OS version",
      FailedFindDeveloperDiskImage |-> "Unable to find developer disk image" ]

\* defaultError(err): what it throws.  err.message is undefined unless err
\* is an Error object, and errorMap[undefined] is undefined.
defaultError(err) ==
    IF err.type = "Error" /\ err.text \in DOMAIN errorMap
    THEN ErrorValue(errorMap[err.text])
    ELSE err

\* The wrapper's .catch(defaultError) on the settled promise.
Catch ==
    /\ result.st # "pending"
    /\ wrapped.st = "pending"
    /\ wrapped' = IF result.st = "resolved" THEN result
                  ELSE Reject(wrapped, defaultError([type |-> result.type,
                                                     text |-> result.text]))
    /\ last' = "catch"
    /\ calls' = <<>>
    /\ UNCHANGED << auxVars, entry, packagePath, sock, peerEnded, ended, initState,
                    endStatus, endSignal, deferred, timer, chain, result,
                    written, nev, good >>

Next ==
    \/ Lookup
    \/ Connect
    \/ Data
    \/ End
    \/ Error
    \/ Timer
    \/ Then1
    \/ Then2
    \/ Settle
    \/ Catch

Spec == Init /\ [][Next]_vars

\* The event loop runs every queued job and every started timer fires.
Fairness ==
    /\ WF_vars(Then1)
    /\ WF_vars(Then2)
    /\ WF_vars(Settle)
    /\ WF_vars(Catch)
    /\ \A k \in Steps : WF_vars(TimerFire(k))

LiveSpec == Spec /\ Fairness

\* ---------------------------------------------------- the pure functions

\* The handshake variables of a run in which no handshake is made.
HandshakeIdle ==
    /\ entry = "none"
    /\ packagePath = <<>>
    /\ sock = "none"
    /\ chain = "none"
    /\ peerEnded = FALSE
    /\ ended = FALSE
    /\ initState = 0
    /\ endStatus = Null
    /\ endSignal = Null
    /\ deferred = [k \in Steps |-> PendingPromise]
    /\ timer = [k \in Steps |-> "off"]
    /\ result = PendingPromise
    /\ wrapped = PendingPromise
    /\ written = <<>>
    /\ calls = <<>>
    /\ nev = 0
    /\ last = "none"
    /\ good = 0

\* Character codes of the argument strings: control characters (tab, line
\* feed), printable ASCII (space, "/", "0", "H", "c", "~") and codes above 127.
InputChars == {9, 10, 32, 47, 48, 72, 99, 126, 128, 255}

\* The strings over InputChars of length at most n.
StringsUpTo(n) == UNION { [1..k -> InputChars] : k \in 0..n }

FnInit ==
    /\ HandshakeIdle
    /\ ProxyIdle
    /\ MountIdle
    /\ fn = "none"
    /\ arg \in StringsUpTo(MaxLen)
    /\ ret = <<>>

\* A call of makeGdbCommand(arg).
ApplyMakeGdbCommand ==
    /\ fn = "none"
    /\ fn' = "makeGdbCommand"
    /\ ret' = makeGdbCommand(arg)
    /\ UNCHANGED << arg, handshakeVars, proxyVars, mountVars >>

\* A call of encodePath(arg).
ApplyEncodePath ==
    /\ fn = "none"
    /\ fn' = "encodePath"
    /\ ret' = encodePath(arg)
    /\ UNCHANGED << arg, handshakeVars, proxyVars, mountVars >>

FnNext == ApplyMakeGdbCommand \/ ApplyEncodePath

FnSpec == FnInit /\ [][FnNext]_vars

\* ------------------------------------------------------- startDebugProxy

Calls == 1..MaxCalls

\* SharedState.nativeDebuggerProxyInstance (get): null (0) when
\* global.tacoRemoteLib is undefined.
GetInstance(lib) == IF lib.defined THEN lib.nativeDebuggerProxyInstance ELSE 0

\* SharedState.nativeDebuggerProxyInstance (set).
SetInstance(lib, instance) ==
    [defined |-> TRUE, nativeDebuggerProxyInstance |-> instance]

\* A startDebugProxy call that has not been made yet.
NoCall == [pc |-> "idle", spawned |-> 0, st |-> "pending", value |-> 0]

\* No call is made yet; global.tacoRemoteLib is undefined, or it holds the
\* proxy an earlier use of the library left running.
ProxyInit ==
    /\ HandshakeIdle
    /\ FnIdle
    /\ MountIdle
    /\ call = [c \in Calls |-> NoCall]
    /\ \/ /\ tacoRemoteLib = [defined |-> FALSE, nativeDebuggerProxyInstance |-> 0]
          /\ procs = <<>>
       \/ /\ tacoRemoteLib = [defined |-> TRUE, nativeDebuggerProxyInstance |-> 1]
          /\ procs = << [signaled |-> FALSE, errored |-> FALSE] >>

\* startDebugProxy up to the mount: a stored proxy is sent SIGHUP and the
\* stored handle is cleared; then the mount of the developer image starts.
StartDebugProxy(c) ==
    /\ call[c].pc = "idle"
    /\ \A b \in Calls : b < c => call[b].pc # "idle"
    /\ IF GetInstance(tacoRemoteLib) # 0
       THEN /\ procs' = [procs EXCEPT ![GetInstance(tacoRemoteLib)].signaled = TRUE]
            /\ tacoRemoteLib' = SetInstance(tacoRemoteLib, 0)
       ELSE UNCHANGED << procs, tacoRemoteLib >>
    /\ call' = [call EXCEPT ![c].pc = "mounting"]
    /\ UNCHANGED << handshakeVars, fnVars, mountVars >>

\* The mount succeeded: the proxy is spawned, its handle is stored and the
\* grace delay starts.
MountDone(c) ==
    /\ call[c].pc = "mounting"
    /\ procs' = Append(procs, [signaled |-> FALSE, errored |-> FALSE])
    /\ tacoRemoteLib' = SetInstance(tacoRemoteLib, Len(procs) + 1)
    /\ call' = [call EXCEPT ![c].pc = "grace", ![c].spawned = Len(procs) + 1]
    /\ UNCHANGED << handshakeVars, fnVars, mountVars >>

\* The mount failed: the call is rejected and nothing is spawned.
MountFailed(c) ==
    /\ call[c].pc = "mounting"
    /\ call' = [call EXCEPT ![c].pc = "done", ![c].st = "rejected"]
    /\ UNCHANGED << handshakeVars, fnVars, mountVars, tacoRemoteLib, procs >>

\* The once("error") callback of the spawned proxy: deferred.reject(err).
SpawnError(c) ==
    /\ call[c].spawned # 0
    /\ ~procs[call[c].spawned].errored
    /\ procs' = [procs EXCEPT ![call[c].spawned].errored = TRUE]
    /\ call' = [call EXCEPT ![c].st = IF @ = "pending" THEN "rejected" ELSE @]
    /\ UNCHANGED << handshakeVars, fnVars, mountVars, tacoRemoteLib >>

\* Q.delay(200) elapsed: deferred.resolve(SharedState.nativeDebuggerProxyInstance).
GraceElapsed(c) ==
    /\ call[c].pc = "grace"
    /\ call' = [call EXCEPT
                  ![c].pc = "done",
                  ![c].st = IF @ = "pending" THEN "resolved" ELSE @,
                  ![c].value = IF call[c].st = "pending"
                               THEN GetInstance(tacoRemoteLib) ELSE @]
    /\ UNCHANGED << handshakeVars, fnVars, mountVars, tacoRemoteLib, procs >>

ProxyNext ==
    \E c \in Calls :
       \/ StartDebugProxy(c)
       \/ MountDone(c)
       \/ MountFailed(c)
       \/ SpawnError(c)
       \/ GraceElapsed(c)

ProxySpec == ProxyInit /\ [][ProxyNext]_vars

\* --------------------------------------------------- mountDeveloperImage

\* The most stdout "data" events one run of the mount utility delivers.
MaxData == 2

ErrorText == Str(<<"E", "r", "r", "o", "r", ":">>)

NoDeviceText ==
    Str(<<"N", "o", " ", "d", "e", "v", "i", "c", "e", " ", "f", "o", "u", "n",
          "d", ",", " ", "i", "s", " ", "i", "t", " ", "p", "l", "u", "g", "g",
          "e", "d", " ", "i", "n", "?">>)

\* What one stdout "data" event can deliver: the two texts the close
\* callback looks for, whole or cut in two, and other output.
Chunks ==
    { ErrorText,
      Str(<<"E", "r", "r">>),
      Str(<<"o", "r", ":">>),
      NoDeviceText,
      Str(<<"o", "k">>) }

\* The exit codes of the "close" event of a child that ran: 0, non-zero, or
\* null when a signal ended it.
ExitCodes == { Number(0), Number(1), Null }

\* The code of the "close" event of a child that could not be spawned: the
\* negated errno.
SpawnFailedCode == Number(0 - 2)

\* The rejections of getDiskImage(): its own two, or the failure of xcrun.
DiskImageErrors == {"FailedGetDeviceInfo", "FailedFindDeveloperDiskImage", "ENOENT"}

\* String.prototype.indexOf: the first position of t in s, -1 when none.
IndexOf(s, t) ==
    LET hits == { i \in 0..(Len(s) - Len(t)) : Substring(s, i, i + Len(t)) = t }
    IN  IF hits = {} THEN -1 ELSE CHOOSE i \in hits : \A j \in hits : i <= j

\* The value {} the mount resolves with.
EmptyObject == [type |-> "object", text |-> "{}"]

\* A faulty close callback: every non-zero exit is a mount failure.
OnCloseIgnoringOutput(d, exitCode, out) ==
    IF exitCode # Number(0)
    THEN Reject(d, ErrorValue("ErrorMountingDiskImage"))
    ELSE Resolve(d, EmptyObject)

\* imagemounter.on("close"): the calls on the deferred, in order; the final
\* reject of the non-zero branch is reached after either inner branch.
OnClose(d, exitCode, out) ==
    IF exitCode # Number(0)
    THEN LET inner ==
                 IF IndexOf(out, ErrorText) # -1
                 THEN Resolve(d, EmptyObject)
                 ELSE IF IndexOf(out, NoDeviceText) # -1
                 THEN Reject(d, ErrorValue("NoDeviceAttached"))
                 ELSE d
         IN  Reject(inner, ErrorValue("ErrorMountingDiskImage"))
    ELSE Resolve(d, EmptyObject)

\* The promise mountDeveloperImage() returned: getDiskImage().then(...) is
\* rejected as getDiskImage is, and otherwise follows the mount's deferred.
mountDeveloperImage ==
    IF diskImage \in DiskImageErrors
    THEN Reject(PendingPromise, ErrorValue(diskImage))
    ELSE mountDeferred

\* mountDeveloperImage() was called: getDiskImage() is under way.
MountInit ==
    /\ HandshakeIdle
    /\ FnIdle
    /\ ProxyIdle
    /\ diskImage = "pending"
    /\ imagemounter = "none"
    /\ stdout = <<>>
    /\ ndata = 0
    /\ mountErrored = FALSE
    /\ code = Null
    /\ mountDeferred = PendingPromise

\* getDiskImage() resolved with a path: ideviceimagemounter is spawned.
GetDiskImageResolved ==
    /\ diskImage = "pending"
    /\ diskImage' = "resolved"
    /\ imagemounter' = "running"
    /\ UNCHANGED << handshakeVars, fnVars, proxyVars, stdout, ndata, mountErrored,
                    code, mountDeferred >>

\* getDiskImage() was rejected: nothing is spawned.
GetDiskImageRejected ==
    /\ diskImage = "pending"
    /\ \E e \in DiskImageErrors : diskImage' = e
    /\ UNCHANGED << handshakeVars, fnVars, proxyVars, imagemounter, stdout, ndata,
                    mountErrored, code, mountDeferred >>

\* imagemounter.stdout.on("data"): stdout += data.toString().
ImagemounterData(chunk) ==
    /\ imagemounter = "running"
    /\ ~mountErrored
    /\ ndata < MaxData
    /\ stdout' = stdout \o chunk
    /\ ndata' = ndata + 1
    /\ UNCHANGED << handshakeVars, fnVars, proxyVars, diskImage, imagemounter,
                    mountErrored, code, mountDeferred >>

\* imagemounter.on("error"): the child could not be spawned.
ImagemounterError ==
    /\ imagemounter = "running"
    /\ ~mountErrored
    /\ ndata = 0
    /\ mountErrored' = TRUE
    /\ mountDeferred' = Reject(mountDeferred, ErrorValue("ENOENT"))
    /\ UNCHANGED << handshakeVars, fnVars, proxyVars, diskImage, imagemounter,
                    stdout, ndata, code >>

\* imagemounter.on("close"): after the exit of a child that ran, or after
\* the error event of one that did not.
ImagemounterClose(exitCode) ==
    /\ imagemounter = "running"
    /\ exitCode = SpawnFailedCode <=> mountErrored
    /\ imagemounter' = "closed"
    /\ code' = exitCode
    /\ mountDeferred' = OnClose(mountDeferred, exitCode, stdout)
    /\ UNCHANGED << handshakeVars, fnVars, proxyVars, diskImage, stdout, ndata,
                    mountErrored >>

MountNext ==
    \/ GetDiskImageResolved
    \/ GetDiskImageRejected
    \/ \E chunk \in Chunks : ImagemounterData(chunk)
    \/ ImagemounterError
    \/ \E exitCode \in ExitCodes \cup {SpawnFailedCode} : ImagemounterClose(exitCode)

MountSpec == MountInit /\ [][MountNext]_vars

\* --------------------------------------------------------------- typing

TypeOK ==
    /\ initState \in 0..4
    /\ sock \in {"none", "connecting", "open", "destroyed"}
    /\ chain \in {"lookup", "step1", "step2", "step3", "settled"}
    /\ \A k \in Steps : deferred[k].st \in {"pending", "resolved", "rejected"}
    /\ nev \in 0..MaxEvents
    /\ good \in -1..3

\* --------------------------------------------------------------- properties

Rejected(reason) == [st |-> "rejected", type |-> reason.type, text |-> reason.text]

ResolvedWithSocket == [st |-> "resolved", type |-> "socket", text |-> "socket"]

\* A step of the data callback on a frame with marker m.
FrameStep(m) == nev' = nev + 1 /\ last' = m

\* The handshake waits for the reply of the step initState.
Awaiting ==
    /\ initState \in Steps
    /\ deferred[initState].st = "pending"
    /\ result.st = "pending"

\* C1: when the peer answers A with OK, Hc0 with OK and c with O, each before
\* the step's timer fires and with no E frame, end or error in between, the
\* returned promise is resolved with the socket and initState is 4 (once the
\* queued reactions have run).
C1_WellBehavedPeerResolves ==
    (good = 3 /\ ~JobPending) => (result = ResolvedWithSocket /\ initState = 4)

C1_Witness == good = 3 /\ ~JobPending /\ result.st = "resolved" /\ Len(written) = 6

\* C2: an E frame while a step's reply is awaited rejects every deferred that
\* is still pending with UnableToLaunchApp and leaves the settled ones; the
\* returned promise is then rejected with UnableToLaunchApp, and a rejected
\* promise stays as it is.
C2_ErrorReplyFailsLaunch ==
    /\ [][ (FrameStep("E") /\ initState \in Steps) =>
             \A k \in Steps :
                deferred'[k] = IF deferred[k].st = "pending"
                               THEN Rejected(UnableToLaunchApp)
                               ELSE deferred[k] ]_vars
    /\ [][ (FrameStep("E") /\ Awaiting) =>
             (ChainOutcome(chain', deferred') = Rejected(UnableToLaunchApp)) ]_vars
    /\ [][ (last = "E" /\ last' = "settle") =>
             result' = Rejected(UnableToLaunchApp) ]_vars
    /\ [][ result.st = "rejected" => result' = result ]_vars

C2_Witness ==
    /\ last = "settle"
    /\ initState = 3
    /\ deferred[2].st = "resolved"
    /\ deferred[3] = Rejected(UnableToLaunchApp)
    /\ result = Rejected(UnableToLaunchApp)
    /\ ~peerEnded
    /\ sock = "open"

\* C3: when the timer of step k fires while deferred k is pending, deferred k
\* alone is rejected, with DeviceLaunchTimeout, every other deferred keeps its
\* state and value, and the returned promise is rejected with
\* DeviceLaunchTimeout.
C3_TimeoutRejectsItsStep ==
    /\ [][ \A k \in Steps :
             (timer[k] = "armed" /\ timer'[k] = "fired" /\ deferred[k].st = "pending") =>
                /\ deferred'[k] = Rejected(DeviceLaunchTimeout)
                /\ \A j \in Steps \ {k} : deferred'[j] = deferred[j]
                /\ ChainOutcome(chain', deferred') = Rejected(DeviceLaunchTimeout) ]_vars
    /\ [][ (last = "timer" /\ last' = "settle") =>
             result' = Rejected(DeviceLaunchTimeout) ]_vars

C3_Witness ==
    /\ last = "settle"
    /\ timer[3] = "fired"
    /\ deferred[1].st = "resolved"
    /\ deferred[2].st = "resolved"
    /\ deferred[3] = Rejected(DeviceLaunchTimeout)
    /\ result = Rejected(DeviceLaunchTimeout)

\* C4: once the returned promise is resolved, a W, X or T frame makes the
\* client call socket.end(), and neither that frame nor any later event (the
\* end event included) changes the resolved promise.
C4_StopFrameEndsConnection ==
    /\ [][ (result.st = "resolved" /\ (FrameStep("W") \/ FrameStep("X") \/ FrameStep("T"))) =>
             (ended' /\ result' = result) ]_vars
    /\ [][ result.st = "resolved" => result' = result ]_vars
    /\ [][ wrapped.st = "resolved" => wrapped' = wrapped ]_vars

C4_Witness ==
    /\ last = "end"
    /\ ended
    /\ good = 3
    /\ result = ResolvedWithSocket
    /\ wrapped.st = "resolved"

\* C5: the command frames written are a prefix of (A<len>,0,<encodedPath>;
\* $Hc0#DB; $c#63), so each is written at most once and in order; Hc0 is
\* written only when deferred1 is resolved and c only when deferred2 is.
C5_CommandsInOrder ==
    LET cmds == Commands(written)
    IN  /\ Len(cmds) <= 3
        /\ Len(cmds) >= 1 =>
             /\ cmds[1] = CmdA(packagePath)
             /\ SubSeq(cmds[1], 1, 2) = Str(<<"$", "A">>)
        /\ Len(cmds) >= 2 =>
             /\ cmds[2] = Str(<<"$", "H", "c", "0", "#", "D", "B">>)
             /\ deferred[1].st = "resolved"
        /\ Len(cmds) >= 3 =>
             /\ cmds[3] = Str(<<"$", "c", "#", "6", "3">>)
             /\ deferred[2].st = "resolved"

C5_Witness == Len(Commands(written)) = 3 /\ deferred[3].st = "pending"

\* C6: a settled deferred never changes again, whatever frame, end, error or
\* timer comes later, and the returned promise and the wrapper's promise
\* settle at most once.
C6_SettledOnce ==
    /\ [][ \A k \in Steps : deferred[k].st # "pending" => deferred'[k] = deferred[k] ]_vars
    /\ [][ result.st # "pending" => result' = result ]_vars
    /\ [][ wrapped.st # "pending" => wrapped' = wrapped ]_vars

\* The timer of step 1 fired after step 1 had succeeded.
C6_Witness ==
    /\ last = "timer"
    /\ timer[1] = "fired"
    /\ deferred[1] = ResolvedWithSocket
    /\ timer[2] = "armed"

\* C7: once a deferred has been rejected, or socket.end() has been called,
\* no command frame is written any more.
C7_NoCommandAfterTerminal ==
    [][ ((\E k \in Steps : deferred[k].st = "rejected") \/ ended) =>
          Commands(written') = Commands(written) ]_vars

\* C8: initState is 4 exactly when the returned promise is resolved (once
\* the queued reactions have run), and never when it is rejected.
C8_NoPartialSuccess ==
    /\ result.st = "rejected" => initState # 4
    /\ ~JobPending => (initState = 4 <=> result.st = "resolved")

\* C9: once the connect callback has run, the returned promise eventually
\* settles, when every queued reaction runs and every started timer fires.
C9_HandshakeSettles == (timer[1] # "off") ~> (result.st # "pending")

\* The peer sent nothing at all and the promise is settled.
C9_Witness == nev = 0 /\ timer[1] = "fired" /\ result.st = "rejected"

\* C10: whenever the library fails with an error id of errorMap, the wrapper
\* rejects with the mapped message of that id.
C10_WrapperMapsEveryKind ==
    (wrapped.st = "rejected" /\ result.text \in DOMAIN errorMap) =>
        wrapped.text = errorMap[result.text]

\* The sum of the character codes of s.
RECURSIVE CodeSum(_, _)
CodeSum(s, i) == IF i = 0 THEN 0 ELSE s[i] + CodeSum(s, i - 1)

\* The number two upper-case hexadecimal digits stand for; -1 when one of
\* them is no such digit.
HexPair(hi, lo) ==
    IF HexValue(hi) \in 0..15 /\ HexValue(lo) \in 0..15
    THEN 16 * HexValue(hi) + HexValue(lo)
    ELSE -1

PrintableAscii == 32..126

\* C11: makeGdbCommand(c) is "$", c, "#" and exactly two upper-case
\* hexadecimal digits that stand for the sum of the character codes of c
\* modulo 256; "Hc0" gives "$Hc0#DB" and "c" gives "$c#63".
C11_FrameChecksum ==
    fn = "makeGdbCommand" =>
        LET n == Len(arg)
        IN  /\ Len(ret) = n + 4
            /\ ret[1] = Ord("$")
            /\ SubSeq(ret, 2, n + 1) = arg
            /\ ret[n + 2] = Ord("#")
            /\ HexPair(ret[n + 3], ret[n + 4]) = CodeSum(arg, n) % 256
            /\ arg = Str(<<"H", "c", "0">>) =>
                 ret = Str(<<"$", "H", "c", "0", "#", "D", "B">>)
            /\ arg = Str(<<"c">>) => ret = Str(<<"$", "c", "#", "6", "3">>)

\* A command whose sum passes 255 and leaves a one digit checksum.
C11_Witness ==
    /\ fn = "makeGdbCommand"
    /\ Len(arg) = 2
    /\ arg[1] + arg[2] >= 256
    /\ (arg[1] + arg[2]) % 256 < 16
    /\ ret[5] = Ord("0")

\* C12: for a string s of printable ASCII characters, encodePath(s) has
\* length 2 * Len(s) and its i-th pair of characters is the upper-case
\* hexadecimal code of s[i] (so it holds digits and A-F only).
C12_EncodePathPrintable ==
    (fn = "encodePath" /\ \A i \in 1..Len(arg) : arg[i] \in PrintableAscii) =>
        /\ Len(ret) = 2 * Len(arg)
        /\ \A i \in 1..Len(arg) : HexPair(ret[2 * i - 1], ret[2 * i]) = arg[i]

C12_Witness ==
    /\ fn = "encodePath"
    /\ Len(arg) = 3
    /\ \A i \in 1..3 : arg[i] \in PrintableAscii
    /\ arg[1] = Ord("/")
    /\ arg[2] = Ord("c")
    /\ Len(ret) = 6

\* A step of the data callback, on a frame or on anything else.
DataStep == nev' = nev + 1 /\ last' \notin {"end", "error"}

\* C13: on every delivery that is a frame (it starts with "$" once its
\* leading "+" are stripped), whatever its marker and whatever the state,
\* the callback writes "+" exactly once and as its first call, before it
\* settles a deferred or ends the socket; on any other delivery it writes
\* nothing.
C13_FrameAcknowledgedFirst ==
    [][ DataStep =>
          IF last' # "none"
          THEN /\ written' = Append(written, Str(<<"+">>))
               /\ calls' # <<>>
               /\ calls'[1] = "write"
               /\ \A i \in 2..Len(calls') : calls'[i] # "write"
          ELSE written' = written /\ calls' = <<>> ]_vars

\* A T frame during the handshake: acknowledged, then the socket is ended.
C13_Witness ==
    /\ last = "T"
    /\ initState = 2
    /\ calls = <<"write", "end">>
    /\ written[Len(written)] = Ack

\* The closure variables a callback can change, but for the calls log.
Handshake == << deferred, initState, endStatus, endSignal, ended >>

\* Deferred k becomes resolved in this step.
Resolves(k) == deferred[k].st = "pending" /\ deferred'[k].st = "resolved"

\* C14: deferred 1 is resolved only by an OK frame while initState is 1,
\* deferred 2 only by an OK frame while initState is 2, deferred 3 only by
\* an O frame while initState is 3; an OK frame in initState 3 and an O frame
\* in initState 0..2 change neither a deferred nor any other closure
\* variable.
C14_MatchingReplyOnly ==
    /\ [][ Resolves(1) => (FrameStep("OK") /\ initState = 1) ]_vars
    /\ [][ Resolves(2) => (FrameStep("OK") /\ initState = 2) ]_vars
    /\ [][ Resolves(3) => (FrameStep("O") /\ initState = 3) ]_vars
    /\ [][ (FrameStep("OK") /\ initState = 3) => UNCHANGED Handshake ]_vars
    /\ [][ (FrameStep("O") /\ initState < 3) => UNCHANGED Handshake ]_vars

\* An OK frame arrived while the reply of the c command was awaited.
C14_Witness ==
    /\ last = "OK"
    /\ initState = 3
    /\ deferred[3].st = "pending"
    /\ calls = <<"write">>

\* A step of the end callback, and one of the error callback.
EndStep == nev' = nev + 1 /\ last' = "end"

ErrorStep == nev' = nev + 1 /\ last' = "error"

\* C15: the end event rejects every pending deferred with UnableToLaunchApp,
\* the error event rejects every pending deferred with the transport error,
\* and both leave the settled deferreds as they are.
C15_EndAndErrorReject ==
    /\ [][ EndStep =>
             \A k \in Steps :
                deferred'[k] = IF deferred[k].st = "pending"
                               THEN Rejected(UnableToLaunchApp)
                               ELSE deferred[k] ]_vars
    /\ [][ ErrorStep =>
             \E e \in TransportErrors :
                \A k \in Steps :
                   deferred'[k] = IF deferred[k].st = "pending"
                                  THEN Rejected(ErrorValue(e))
                                  ELSE deferred[k] ]_vars

\* The connection broke while the reply of Hc0 was awaited.
C15_Witness ==
    /\ last = "error"
    /\ deferred[1] = ResolvedWithSocket
    /\ deferred[2] = Rejected(ErrorValue("ECONNRESET"))
    /\ deferred[3] = Rejected(ErrorValue("ECONNRESET"))

\* C16: initState stays in 0..4 and a step leaves it as it is or adds one;
\* deferred 2 is resolved only when deferred 1 is resolved and two commands
\* have been written, deferred 3 only when deferred 2 is resolved and three
\* commands have been written.
C16_StepStateForward ==
    /\ [](initState \in 0..4)
    /\ [][ initState' = initState \/ initState' = initState + 1 ]_vars
    /\ [](\A k \in 2..3 :
            deferred[k].st = "resolved" =>
               /\ deferred[k - 1].st = "resolved"
               /\ Len(Commands(written)) >= k)

C16_Witness ==
    /\ initState = 4
    /\ deferred[3].st = "resolved"
    /\ Len(Commands(written)) = 3

\* The timer of step k fires in this step.
TimerStep(k) == timer[k] = "armed" /\ timer'[k] = "fired"

\* C17: a timer callback calls the reject of its own step and nothing else:
\* it writes nothing, does not end the socket, leaves the socket state and
\* initState as they are and changes no deferred of another step.
C17_TimerOnlyRejectsItsStep ==
    [][ \A k \in Steps :
          TimerStep(k) =>
             /\ written' = written
             /\ ended' = ended
             /\ sock' = sock
             /\ peerEnded' = peerEnded
             /\ initState' = initState
             /\ calls' = <<RejectCall(k)>>
             /\ \A j \in Steps \ {k} : deferred'[j] = deferred[j]
             /\ deferred'[k] \in {deferred[k], Rejected(DeviceLaunchTimeout)} ]_vars

\* The timer of step 2 fired on an open connection that stays open.
C17_Witness ==
    /\ last = "timer"
    /\ calls = <<"reject2">>
    /\ deferred[2] = Rejected(DeviceLaunchTimeout)
    /\ deferred[3].st = "pending"
    /\ sock = "open"
    /\ ~ended
    /\ ~peerEnded

\* The session failed on a connection that was made.
FailedSession == result.st = "rejected" /\ sock # "none"

\* The connection is closed: the client called end(), or the runtime tore
\* the socket down (it destroys the socket after an error and, the socket not
\* being half-open, ends it after the peer's end).
Closed == ended \/ peerEnded \/ sock = "destroyed"

\* C18 as stated: whenever a session ends in failure (E reply, step timeout,
\* transport error or peer end) the connection is eventually closed from the
\* client's side.
C18_ClientClosesOnFailure == FailedSession ~> Closed

\* C18 as amended: the client ends the connection in the callback of a W, X
\* or T frame and nowhere else; an E frame, a timer, the end and error
\* callbacks and the promise reactions leave the connection un-ended.
C18_ClientEndsOnStopFramesOnly ==
    /\ [][ (~ended /\ ended') =>
             (FrameStep("W") \/ FrameStep("X") \/ FrameStep("T")) ]_vars
    /\ [][ ( \/ FrameStep("E") \/ EndStep \/ ErrorStep
             \/ \E k \in Steps : TimerStep(k) ) => ended' = ended ]_vars

\* An E reply failed the session and the client has not ended the open
\* connection.
C18_Witness ==
    /\ FailedSession
    /\ result.text = "UnableToLaunchApp"
    /\ deferred[1] = Rejected(UnableToLaunchApp)
    /\ sock = "open"
    /\ ~peerEnded
    /\ ~ended
    /\ ~JobPending

\* C19: a frame whose payload starts with none of OK, W, X, T, O, E is
\* ignored in every state: its callback writes the acknowledgement and calls
\* nothing else, so no deferred is settled, initState, the exit status and
\* signal are unchanged, the socket is not ended, no command is written and
\* no promise reaction is queued.
C19_UnknownMarkerIgnored ==
    [][ FrameStep("other") =>
          /\ deferred' = deferred
          /\ initState' = initState
          /\ endStatus' = endStatus
          /\ endSignal' = endSignal
          /\ ended' = ended
          /\ sock' = sock
          /\ result' = result
          /\ calls' = <<"write">>
          /\ written' = Append(written, Ack)
          /\ Commands(written') = Commands(written)
          /\ ~JobPending' ]_vars

\* A frame of an unknown marker arrived while the reply to the second
\* command was awaited, and the reply is still awaited.
C19_Witness ==
    /\ last = "other"
    /\ initState = 2
    /\ deferred[2].st = "pending"
    /\ calls = <<"write">>
    /\ ~ended

\* The spawned proxies that run and were not sent SIGHUP.
LiveProxies ==
    { p \in 1..Len(procs) : ~procs[p].signaled /\ ~procs[p].errored }

\* C20: under any interleaving of startDebugProxy calls, every running proxy
\* that is not the handle stored in shared state has been signaled to
\* terminate, so at most one running proxy is unsignaled at any time.
C20_ReplacedProxySignaled ==
    /\ \A p \in LiveProxies : p = GetInstance(tacoRemoteLib)
    /\ Cardinality(LiveProxies) <= 1

\* C21: a startDebugProxy call that resolves, resolves with the handle of the
\* proxy this same call spawned (never null, never another call's proxy),
\* also when another call starts during its grace delay; a call whose spawn
\* reported an error within the grace delay is rejected.
C21_ResolvesWithOwnProxy ==
    \A c \in Calls :
       /\ call[c].st = "resolved" =>
             /\ call[c].value # 0
             /\ call[c].value = call[c].spawned
       /\ (call[c].pc = "grace" /\ procs[call[c].spawned].errored) =>
             call[c].st = "rejected"

\* The character is a hexadecimal digit.
IsHexDigit(ch) == HexValue(ch) \in 0..15

\* A complete, well-formed frame: "$", a payload, "#" and two hexadecimal
\* digits whose value is the sum of the payload's codes modulo 256.
WellFormed(data) ==
    LET n == Len(data)
    IN  /\ n >= 4
        /\ CharAt(data, 0) = Ord("$")
        /\ CharAt(data, n - 3) = Ord("#")
        /\ IsHexDigit(data[n - 1])
        /\ IsHexDigit(data[n])
        /\ 16 * HexValue(data[n - 1]) + HexValue(data[n])
              = StringSum(Substring(data, 1, n - 3)) % 256

\* C22: a delivery that is not a complete, well-formed frame (a fragment, or
\* a frame of a wrong checksum) is neither acknowledged nor interpreted: the
\* data callback writes nothing and changes nothing of the handshake.
C22_OnlyWellFormedFramesHandled ==
    [][ \A raw \in Deliveries :
          (OnData(raw) /\ ~WellFormed(StripPlus(raw))) =>
             /\ written' = written
             /\ Handshake' = Handshake ]_vars

\* C23: encodePath encodes every character of every string over the codes
\* 0..255, control characters such as the newline included: the result is
\* the upper-case hexadecimal codes of the characters in order, and no
\* character is passed through.
C23_EncodePathEveryChar ==
    fn = "encodePath" =>
       ret = Concat([i \in 1..Len(arg) |-> ToHexUpper(arg[i])])

\* C24: once the client has called socket.end() (on a W, X or T frame, in
\* any state), it never calls socket.write() again: neither for the
\* acknowledgement of a frame delivered later nor for a handshake command.
C24_NoWriteAfterEnd == [][ ended => written' = written ]_vars

\* The text t occurs in s.
Contains(s, t) ==
    \E i \in 1..Len(s) : i + Len(t) - 1 <= Len(s) /\ SubSeq(s, i, i + Len(t) - 1) = t

\* The mount resolved.
MountSucceeded == [st |-> "resolved", type |-> "object", text |-> "{}"]

\* The outcome the exit of the mount utility determines, the cases taken in
\* the order the claim states them.
OutcomeOfExit ==
    IF code = Number(0) THEN MountSucceeded
    ELSE IF Contains(stdout, ErrorText) THEN MountSucceeded
    ELSE IF Contains(stdout, NoDeviceText)
    THEN Rejected(ErrorValue("NoDeviceAttached"))
    ELSE Rejected(ErrorValue("ErrorMountingDiskImage"))

\* C25: mountDeveloperImage settles with one outcome, determined by the exit
\* of the mount utility: while the utility runs the promise is pending; once
\* it has exited, exit code 0 gives success, a non-zero exit with "Error:" in
\* the output gives success, a non-zero exit with "No device found, is it
\* plugged in?" in it gives NoDeviceAttached and any other non-zero exit
\* gives ErrorMountingDiskImage; and a settled outcome never changes.
C25_MountOutcome ==
    /\ []( (imagemounter = "running" /\ ~mountErrored) =>
              mountDeveloperImage.st = "pending" )
    /\ []( (imagemounter = "closed" /\ ~mountErrored) =>
              mountDeveloperImage = OutcomeOfExit )
    /\ [][ mountDeveloperImage.st # "pending" =>
              mountDeveloperImage' = mountDeveloperImage ]_vars

\* The utility exited with a non-zero code after it printed that no device
\* was found: the close callback rejected with NoDeviceAttached and its
\* final reject changed nothing.
C25_Witness ==
    /\ imagemounter = "closed"
    /\ code = Number(1)
    /\ stdout = NoDeviceText
    /\ mountDeveloperImage = Rejected(ErrorValue("NoDeviceAttached"))

====
